---- MODULE Spec2Model ----
(***************************************************************************)
(* Edit-session engine of the photo editor (App.tsx): the history stack,   *)
(* the transient state (layers, crop region, hotspot), the session mode,   *)
(* the error flag, the busy flag and the asynchronous collaborator calls.  *)
(*                                                                         *)
(* A raster (File object) is a positive integer, its identity; 0 is null.  *)
(* An optional value (useState<T | null>) is <<>> or <<v>>.                *)
(* Opacity is kept in percent (1.0 = 100).                                 *)
(***************************************************************************)
EXTENDS Integers, Sequences, FiniteSets, TLC

VARIABLES
  mode,             \* useState<AppMode>
  history,          \* useState<File[]>
  historyIndex,     \* useState<number>
  prompt,           \* useState<string>
  isLoading,        \* useState<boolean>
  error,            \* useState<string | null>
  editHotspot,      \* natural-space hotspot
  displayHotspot,   \* display-space hotspot
  activeTab,        \* useState<Tab>
  crop,             \* in-progress crop
  completedCrop,    \* completed crop selection
  layers,           \* useState<TextLayer[]>
  selectedLayerId,  \* useState<string | null>
  pending,          \* requests in flight, each with the closure it captured
  nextRaster,       \* identity of the next File object created
  lastOp,           \* the handler that ran last, and the branch it took
  canvas,           \* what the handler that ran last drew on its canvas
  img,              \* the <img> element of the editor: its sizes
  dragInfo,         \* useRef: the layer dragged on the image, its grab offset
  dragItem,         \* LayerPanel useRef: index of the row being dragged
  dragOverItem,     \* LayerPanel useRef: index of the row dragged over
  script            \* observer of the scenario "N commits, then K undos"

vars == <<mode, history, historyIndex, prompt, isLoading, error, editHotspot,
          displayHotspot, activeTab, crop, completedCrop, layers,
          selectedLayerId, pending, nextRaster, lastOp, canvas, img, dragInfo,
          dragItem, dragOverItem, script>>

----------------------------------------------------------------------------
\* Bounds of the model.
MaxRaster == 3
MaxLayers == 1
\* Layers in the steps of the layer tools alone.
MaxStack == 2

\* Values of the environment read by the handlers.
NaturalWidth == 1000
NaturalHeight == 500
ClientWidth == 500
ClientHeight == 250

\* The <img> element as the handlers read it: the size of the decoded image
\* and the size it is laid out at. The session starts with the first one.
DefaultImg ==
  [naturalWidth |-> NaturalWidth, naturalHeight |-> NaturalHeight,
   width |-> ClientWidth, height |-> ClientHeight]
Imgs ==
  {DefaultImg,
   [naturalWidth |-> 1200, naturalHeight |-> 500, width |-> 400,
    height |-> 250]}

\* lastOp after a handler that only changes what the user is preparing.
Minor == <<"ui", "">>

NoError == "null"
NoLayer == 0
NoRaster == 0
\* A useRef<number | null> holding null.
NoIndex == -1
\* dragInfo as it is created: { id: null, offset: { x: 0, y: 0 } }.
NoDrag == [id |-> NoLayer, offset |-> [x |-> 0, y |-> 0]]

Tabs == {"retouch", "crop", "adjust", "filters", "text", "layers"}
\* What the user types, where the user clicks and what the user drags in
\* the running application; the handlers called directly get more.
PromptValues == {"", "fix"}
ClickPoints == {[x |-> 3, y |-> 1]}
CropRects == {[x |-> 100, y |-> 50, width |-> 100, height |-> 50],
              [x |-> 10, y |-> 10, width |-> 20, height |-> 0]}
HandlerCropRects ==
  CropRects \cup {[x |-> 10, y |-> 10, width |-> 0, height |-> 0],
                  [x |-> 30, y |-> 20, width |-> 40, height |-> 10]}
\* What the layer controls change, where the pointer goes on the image and
\* where a layer is grabbed.
LayerUpdates ==
  {[visible |-> FALSE], [visible |-> TRUE], [opacity |-> 50],
   [content |-> "Hi", color |-> "#000000"]}
PointerPoints == {[clientX |-> 100, clientY |-> 90],
                  [clientX |-> 130, clientY |-> 60]}
GrabOffsets == {[x |-> 5, y |-> 8]}
EditKinds == {"retouch", "filter", "adjustment", "enhance", "upscale"}

----------------------------------------------------------------------------
\* Pure helpers.

Min(a, b) == IF a < b THEN a ELSE b

\* Array.prototype.slice(0, end) for end >= 0.
Slice(s, end) == SubSeq(s, 1, Min(end, Len(s)))

\* String.prototype.trim on the prompt values.
Trim(p) == IF p = " " THEN "" ELSE p

\* Math.floor in the place of Math.round.
RoundDiv_Floor(a, b) == a \div b
\* Math.round(a / b) for a >= 0, b > 0.
RoundDiv(a, b) == (2 * a + b) \div (2 * b)

\* history[historyIndex] ?? null
At(h, i) == IF i >= 0 /\ i < Len(h) THEN h[i + 1] ELSE NoRaster

currentImage == At(history, historyIndex)
originalImage == At(history, 0)
currentImageUrl == currentImage

\* canUndo with the comparison off by one.
canUndo_OffByOne == historyIndex >= 0
canUndo == historyIndex > 0
\* canRedo with the comparison off by one.
canRedo_OffByOne == historyIndex < Len(history)
canRedo == historyIndex < Len(history) - 1

LayerIds(ls) == {ls[i].id : i \in 1..Len(ls)}

\* prev.filter(l => l.id !== id)
WithoutId(ls, id) ==
  LET F[i \in 0..Len(ls)] ==
        IF i = 0 THEN <<>>
        ELSE IF ls[i].id # id THEN Append(F[i - 1], ls[i]) ELSE F[i - 1]
  IN F[Len(ls)]

\* Math.max over the identities of the layers, 0 without layers.
NewestId(ls) ==
  IF ls = <<>> THEN 0
  ELSE CHOOSE m \in LayerIds(ls) : \A n \in LayerIds(ls) : n <= m

\* What Date.now() can return when a layer is added, counted from the
\* layers present: the tick of the newest layer, or the next one.
DateNow(ls) == {NewestId(ls), NewestId(ls) + 1} \ {0}

NewLayer(id) ==
  [id |-> id, content |-> "Your Text Here", font |-> "Arial", size |-> 50,
   color |-> "#FFFFFF", position |-> [x |-> 50, y |-> 50], opacity |-> 100,
   visible |-> TRUE]

\* What a request in flight holds: its kind and the state its closure read.
Request(kind) ==
  [kind |-> kind, image |-> currentImage, history |-> history,
   historyIndex |-> historyIndex, layers |-> layers]

\* A File object can still be created within the bound.
CanCreateRaster == nextRaster + Cardinality(pending) <= MaxRaster

----------------------------------------------------------------------------
\* What renderContent shows.

\* renderContent without its error branch.
ErrorShown_Never == FALSE
ErrorShown == error # NoError
StartScreenShown ==
  /\ ~ErrorShown
  /\ mode = "start" \/ (mode = "edit" /\ currentImageUrl = NoRaster)
GenerateScreenShown == ~ErrorShown /\ mode = "generate"
EditorShown == ~ErrorShown /\ mode = "edit" /\ currentImageUrl # NoRaster

\* The first render after a step: the effect that creates the object URL of
\* the current image runs after the render, which still has the URL of the
\* image that was current before the step, and shows the start screen in
\* mode edit when there is none.
FallbackRendered ==
  ~ErrorShown' /\ mode' = "edit" /\ currentImageUrl = NoRaster

----------------------------------------------------------------------------
Init ==
  /\ mode = "start"
  /\ history = <<>>
  /\ historyIndex = -1
  /\ prompt = ""
  /\ isLoading = FALSE
  /\ error = NoError
  /\ editHotspot = <<>>
  /\ displayHotspot = <<>>
  /\ activeTab = "retouch"
  /\ crop = <<>>
  /\ completedCrop = <<>>
  /\ layers = <<>>
  /\ selectedLayerId = NoLayer
  /\ pending = {}
  /\ nextRaster = 1
  /\ lastOp = <<"init", "">>
  /\ canvas = <<>>
  /\ dragInfo = NoDrag
  /\ dragItem = NoIndex
  /\ dragOverItem = NoIndex
  /\ img = DefaultImg
  /\ script = [on |-> FALSE, rs |-> <<>>, k |-> 0]

----------------------------------------------------------------------------
\* The observer: on while the history since the last replaceAll was made by
\* commits only, each completed with the history as it was at dispatch,
\* followed by undos only; rs are the rasters R0..RN, k the number of undos.

ScriptOff == [on |-> FALSE, rs |-> <<>>, k |-> 0]
ScriptStart(r) == [on |-> TRUE, rs |-> <<r>>, k |-> 0]
ScriptCommit(h, i, r) ==
  IF script.on /\ script.k = 0 /\ h = history /\ i = historyIndex
  THEN [script EXCEPT !.rs = Append(@, r)]
  ELSE ScriptOff
ScriptUndo == IF script.on THEN [script EXCEPT !.k = @ + 1] ELSE ScriptOff

----------------------------------------------------------------------------
\* History stack.

\* addImageToHistory setting the cursor to the new length.
addImageToHistory_IndexPastEnd(h, i, newImageFile) ==
  /\ history' = Append(Slice(h, i + 1), newImageFile)
  /\ historyIndex' = Len(history')
  /\ crop' = <<>>
  /\ completedCrop' = <<>>
  /\ layers' = <<>>
  /\ selectedLayerId' = NoLayer

\* addImageToHistory pushing onto the whole history instead of the slice.
addImageToHistory_NoTruncate(h, i, newImageFile) ==
  /\ history' = Append(h, newImageFile)
  /\ historyIndex' = Len(history') - 1
  /\ crop' = <<>>
  /\ completedCrop' = <<>>
  /\ layers' = <<>>
  /\ selectedLayerId' = NoLayer

\* addImageToHistory without setLayers([]) and setSelectedLayerId(null).
addImageToHistory_KeepsLayers(h, i, newImageFile) ==
  /\ history' = Append(Slice(h, i + 1), newImageFile)
  /\ historyIndex' = Len(history') - 1
  /\ crop' = <<>>
  /\ completedCrop' = <<>>
  /\ UNCHANGED <<layers, selectedLayerId>>

addImageToHistory(h, i, newImageFile) ==
  /\ history' = Append(Slice(h, i + 1), newImageFile)
  /\ historyIndex' = Len(history') - 1
  /\ crop' = <<>>
  /\ completedCrop' = <<>>
  /\ layers' = <<>>
  /\ selectedLayerId' = NoLayer

\* startNewHistoryWithFile without setMode('edit').
startNewHistoryWithFile_KeepsMode(file) ==
  /\ error' = NoError
  /\ history' = <<file>>
  /\ historyIndex' = 0
  /\ editHotspot' = <<>>
  /\ displayHotspot' = <<>>
  /\ activeTab' = "retouch"
  /\ crop' = <<>>
  /\ completedCrop' = <<>>
  /\ UNCHANGED mode
  /\ layers' = <<>>
  /\ selectedLayerId' = NoLayer

startNewHistoryWithFile(file) ==
  /\ error' = NoError
  /\ history' = <<file>>
  /\ historyIndex' = 0
  /\ editHotspot' = <<>>
  /\ displayHotspot' = <<>>
  /\ activeTab' = "retouch"
  /\ crop' = <<>>
  /\ completedCrop' = <<>>
  /\ mode' = "edit"
  /\ layers' = <<>>
  /\ selectedLayerId' = NoLayer

handleImageUpload ==
  /\ CanCreateRaster
  /\ startNewHistoryWithFile(nextRaster)
  /\ nextRaster' = nextRaster + 1
  /\ lastOp' = <<"upload", "">>
  /\ UNCHANGED <<dragInfo, dragItem, dragOverItem>>
  /\ canvas' = <<>>
  /\ UNCHANGED img
  /\ script' = ScriptStart(nextRaster)
  /\ UNCHANGED <<prompt, isLoading, pending>>

handleUndo ==
  /\ IF canUndo
     THEN /\ historyIndex' = historyIndex - 1
          /\ editHotspot' = <<>>
          /\ displayHotspot' = <<>>
          /\ layers' = <<>>
          /\ selectedLayerId' = NoLayer
          /\ lastOp' = <<"undo", "">>
          /\ UNCHANGED <<dragInfo, dragItem, dragOverItem>>
          /\ canvas' = <<>>
          /\ UNCHANGED img
          /\ script' = ScriptUndo
     ELSE /\ lastOp' = <<"undoNoop", "">>
          /\ UNCHANGED <<dragInfo, dragItem, dragOverItem>>
          /\ canvas' = <<>>
          /\ UNCHANGED img
          /\ UNCHANGED <<historyIndex, editHotspot, displayHotspot, layers,
                         selectedLayerId, script>>
  /\ UNCHANGED <<mode, history, prompt, isLoading, error, activeTab, crop,
                 completedCrop, pending, nextRaster>>

handleRedo ==
  /\ IF canRedo
     THEN /\ historyIndex' = historyIndex + 1
          /\ editHotspot' = <<>>
          /\ displayHotspot' = <<>>
          /\ layers' = <<>>
          /\ selectedLayerId' = NoLayer
          /\ lastOp' = <<"redo", "">>
          /\ UNCHANGED <<dragInfo, dragItem, dragOverItem>>
          /\ canvas' = <<>>
          /\ UNCHANGED img
          /\ script' = ScriptOff
     ELSE /\ lastOp' = <<"redoNoop", "">>
          /\ UNCHANGED <<dragInfo, dragItem, dragOverItem>>
          /\ canvas' = <<>>
          /\ UNCHANGED img
          /\ UNCHANGED <<historyIndex, editHotspot, displayHotspot, layers,
                         selectedLayerId, script>>
  /\ UNCHANGED <<mode, history, prompt, isLoading, error, activeTab, crop,
                 completedCrop, pending, nextRaster>>

\* handleReset that drops the entries after the original.
handleReset_Truncates ==
  /\ IF Len(history) > 0
     THEN /\ historyIndex' = 0
          /\ history' = <<history[1]>>
          /\ error' = NoError
          /\ editHotspot' = <<>>
          /\ displayHotspot' = <<>>
          /\ layers' = <<>>
          /\ selectedLayerId' = NoLayer
          /\ lastOp' = <<"reset", "">>
          /\ UNCHANGED <<dragInfo, dragItem, dragOverItem>>
          /\ canvas' = <<>>
          /\ UNCHANGED img
          /\ script' = ScriptOff
     ELSE /\ lastOp' = <<"resetNoop", "">>
          /\ UNCHANGED <<dragInfo, dragItem, dragOverItem>>
          /\ canvas' = <<>>
          /\ UNCHANGED img
          /\ UNCHANGED <<history, historyIndex, error, editHotspot,
                         displayHotspot, layers, selectedLayerId, script>>
  /\ UNCHANGED <<mode, prompt, isLoading, activeTab, crop, completedCrop,
                 pending, nextRaster>>

handleReset ==
  /\ IF Len(history) > 0
     THEN /\ historyIndex' = 0
          /\ error' = NoError
          /\ editHotspot' = <<>>
          /\ displayHotspot' = <<>>
          /\ layers' = <<>>
          /\ selectedLayerId' = NoLayer
          /\ lastOp' = <<"reset", "">>
          /\ UNCHANGED <<dragInfo, dragItem, dragOverItem>>
          /\ canvas' = <<>>
          /\ UNCHANGED img
          /\ script' = ScriptOff
     ELSE /\ lastOp' = <<"resetNoop", "">>
          /\ UNCHANGED <<dragInfo, dragItem, dragOverItem>>
          /\ canvas' = <<>>
          /\ UNCHANGED img
          /\ UNCHANGED <<historyIndex, error, editHotspot, displayHotspot,
                         layers, selectedLayerId, script>>
  /\ UNCHANGED <<mode, history, prompt, isLoading, activeTab, crop,
                 completedCrop, pending, nextRaster>>

\* handleUploadNew without setMode('start').
handleUploadNew_KeepsMode ==
  /\ history' = <<>>
  /\ historyIndex' = -1
  /\ error' = NoError
  /\ prompt' = ""
  /\ editHotspot' = <<>>
  /\ displayHotspot' = <<>>
  /\ lastOp' = <<"startOver", "">>
  /\ UNCHANGED <<dragInfo, dragItem, dragOverItem>>
  /\ canvas' = <<>>
  /\ UNCHANGED img
  /\ script' = ScriptOff
  /\ UNCHANGED <<mode, isLoading, activeTab, crop, completedCrop, layers,
                 selectedLayerId, pending, nextRaster>>

handleUploadNew ==
  /\ history' = <<>>
  /\ historyIndex' = -1
  /\ error' = NoError
  /\ prompt' = ""
  /\ editHotspot' = <<>>
  /\ displayHotspot' = <<>>
  /\ mode' = "start"
  /\ lastOp' = <<"startOver", "">>
  /\ UNCHANGED <<dragInfo, dragItem, dragOverItem>>
  /\ canvas' = <<>>
  /\ UNCHANGED img
  /\ script' = ScriptOff
  /\ UNCHANGED <<isLoading, activeTab, crop, completedCrop, layers,
                 selectedLayerId, pending, nextRaster>>

----------------------------------------------------------------------------
\* Error panel.

\* The Try Again button always going back to the start screen.
dismissError_AlwaysStart ==
  /\ error' = NoError
  /\ mode' = "start"
  /\ lastOp' = <<"dismiss", "">>
  /\ UNCHANGED <<dragInfo, dragItem, dragOverItem>>
  /\ canvas' = <<>>
  /\ UNCHANGED img
  /\ UNCHANGED <<history, historyIndex, prompt, isLoading, editHotspot,
                 displayHotspot, activeTab, crop, completedCrop, layers,
                 selectedLayerId, pending, nextRaster, script>>

dismissError ==
  /\ error' = NoError
  /\ mode' = IF mode = "edit" /\ currentImage = NoRaster THEN "start" ELSE mode
  /\ lastOp' = <<"dismiss", "">>
  /\ UNCHANGED <<dragInfo, dragItem, dragOverItem>>
  /\ canvas' = <<>>
  /\ UNCHANGED img
  /\ UNCHANGED <<history, historyIndex, prompt, isLoading, editHotspot,
                 displayHotspot, activeTab, crop, completedCrop, layers,
                 selectedLayerId, pending, nextRaster, script>>

----------------------------------------------------------------------------
\* Generation of a brand-new image.

handleGenerateImage ==
  /\ CanCreateRaster
  /\ isLoading' = TRUE
  /\ error' = NoError
  /\ pending' = pending \cup {Request("generate")}
  /\ lastOp' = <<"dispatch", "generate">>
  /\ UNCHANGED <<dragInfo, dragItem, dragOverItem>>
  /\ canvas' = <<>>
  /\ UNCHANGED img
  /\ UNCHANGED <<mode, history, historyIndex, prompt, editHotspot,
                 displayHotspot, activeTab, crop, completedCrop, layers,
                 selectedLayerId, nextRaster, script>>

GenerateImageResolved(req) ==
  /\ req \in pending /\ req.kind = "generate"
  /\ startNewHistoryWithFile(nextRaster)
  /\ isLoading' = FALSE
  /\ pending' = pending \ {req}
  /\ nextRaster' = nextRaster + 1
  /\ lastOp' = <<"generated", "generate">>
  /\ UNCHANGED <<dragInfo, dragItem, dragOverItem>>
  /\ canvas' = <<>>
  /\ UNCHANGED img
  /\ script' = ScriptStart(nextRaster)
  /\ UNCHANGED <<prompt>>

GenerateImageRejected(req) ==
  /\ req \in pending /\ req.kind = "generate"
  /\ error' = "generate-failed"
  /\ mode' = "generate"
  /\ isLoading' = FALSE
  /\ pending' = pending \ {req}
  /\ lastOp' = <<"failed", "generate">>
  /\ UNCHANGED <<dragInfo, dragItem, dragOverItem>>
  /\ canvas' = <<>>
  /\ UNCHANGED img
  /\ UNCHANGED <<history, historyIndex, prompt, editHotspot, displayHotspot,
                 activeTab, crop, completedCrop, layers, selectedLayerId,
                 nextRaster, script>>

----------------------------------------------------------------------------
\* Content edits through the collaborator.

\* The early return of a handler that only sets the error.
earlyError(msg, kind) ==
  /\ error' = msg
  /\ lastOp' = <<msg, kind>>
  /\ UNCHANGED <<dragInfo, dragItem, dragOverItem>>
  /\ canvas' = <<>>
  /\ UNCHANGED img
  /\ UNCHANGED <<mode, history, historyIndex, prompt, isLoading, editHotspot,
                 displayHotspot, activeTab, crop, completedCrop, layers,
                 selectedLayerId, pending, nextRaster, script>>

\* setIsLoading(true); setError(null); await the collaborator.
dispatchEdit(kind) ==
  /\ CanCreateRaster
  /\ isLoading' = TRUE
  /\ error' = NoError
  /\ pending' = pending \cup {Request(kind)}
  /\ lastOp' = <<"dispatch", kind>>
  /\ UNCHANGED <<dragInfo, dragItem, dragOverItem>>
  /\ canvas' = <<>>
  /\ UNCHANGED img
  /\ UNCHANGED <<mode, history, historyIndex, prompt, editHotspot,
                 displayHotspot, activeTab, crop, completedCrop, layers,
                 selectedLayerId, nextRaster, script>>

\* handleGenerate testing the hotspot before the prompt.
handleGenerate_HotspotFirst ==
  IF currentImage = NoRaster THEN earlyError("no-image", "retouch")
  ELSE IF editHotspot = <<>> THEN earlyError("no-hotspot", "retouch")
  ELSE IF Trim(prompt) = "" THEN earlyError("no-prompt", "retouch")
  ELSE dispatchEdit("retouch")

handleGenerate ==
  IF currentImage = NoRaster THEN earlyError("no-image", "retouch")
  ELSE IF Trim(prompt) = "" THEN earlyError("no-prompt", "retouch")
  ELSE IF editHotspot = <<>> THEN earlyError("no-hotspot", "retouch")
  ELSE dispatchEdit("retouch")

handleApplyFilter ==
  IF currentImage = NoRaster THEN earlyError("no-image", "filter")
  ELSE dispatchEdit("filter")

handleApplyAdjustment ==
  IF currentImage = NoRaster THEN earlyError("no-image", "adjustment")
  ELSE dispatchEdit("adjustment")

handleAutoEnhance ==
  IF currentImage = NoRaster THEN earlyError("no-image", "enhance")
  ELSE dispatchEdit("enhance")

handleUpscale ==
  IF currentImage = NoRaster THEN earlyError("no-image", "upscale")
  ELSE dispatchEdit("upscale")

\* try: the collaborator returned an image; addImageToHistory is the one the
\* handler captured when it was called. finally: setIsLoading(false).
EditResolved(req) ==
  /\ req \in pending /\ req.kind \in EditKinds
  /\ addImageToHistory(req.history, req.historyIndex, nextRaster)
  /\ IF req.kind = "retouch"
     THEN editHotspot' = <<>> /\ displayHotspot' = <<>>
     ELSE UNCHANGED <<editHotspot, displayHotspot>>
  /\ isLoading' = FALSE
  /\ pending' = pending \ {req}
  /\ nextRaster' = nextRaster + 1
  /\ lastOp' = <<"commit", req.kind>>
  /\ UNCHANGED <<dragInfo, dragItem, dragOverItem>>
  /\ canvas' = <<>>
  /\ UNCHANGED img
  /\ script' = ScriptCommit(req.history, req.historyIndex, nextRaster)
  /\ UNCHANGED <<mode, prompt, error, activeTab>>

\* EditRejected without the finally block.
EditRejected_NoFinally(req) ==
  /\ req \in pending /\ req.kind \in EditKinds
  /\ error' = "edit-failed"
  /\ pending' = pending \ {req}
  /\ lastOp' = <<"failed", req.kind>>
  /\ UNCHANGED <<dragInfo, dragItem, dragOverItem>>
  /\ canvas' = <<>>
  /\ UNCHANGED img
  /\ UNCHANGED <<mode, history, historyIndex, prompt, isLoading, editHotspot,
                 displayHotspot, activeTab, crop, completedCrop, layers,
                 selectedLayerId, nextRaster, script>>

\* catch: setError(...). finally: setIsLoading(false).
EditRejected(req) ==
  /\ req \in pending /\ req.kind \in EditKinds
  /\ error' = "edit-failed"
  /\ isLoading' = FALSE
  /\ pending' = pending \ {req}
  /\ lastOp' = <<"failed", req.kind>>
  /\ UNCHANGED <<dragInfo, dragItem, dragOverItem>>
  /\ canvas' = <<>>
  /\ UNCHANGED img
  /\ UNCHANGED <<mode, history, historyIndex, prompt, editHotspot,
                 displayHotspot, activeTab, crop, completedCrop, layers,
                 selectedLayerId, nextRaster, script>>

----------------------------------------------------------------------------
\* Crop.

PixelRatio == 2

\* imgRef.current: the <img> of the editor, mounted only while it is shown.
imgRef == EditorShown

\* canvas.toDataURL of a canvas without pixels is "data:,", which
\* dataURLtoFile rejects ("Could not parse MIME type"): the handler throws.
CanvasHasPixels(c) == c.width * PixelRatio > 0 /\ c.height * PixelRatio > 0

\* image.naturalWidth / image.width and image.naturalHeight / image.height;
\* the sizes of Imgs make both whole numbers.
scaleX(image) == image.naturalWidth \div image.width
scaleY(image) == image.naturalHeight \div image.height

\* CropDraw reading the source rectangle with the scales of the two axes
\* exchanged.
CropDraw_ScalesSwapped(c, image, pixelRatio) ==
  [op |-> "drawImage",
   width |-> c.width * pixelRatio, height |-> c.height * pixelRatio,
   sx |-> c.x * scaleY(image), sy |-> c.y * scaleX(image),
   sw |-> c.width * scaleY(image), sh |-> c.height * scaleX(image),
   dx |-> 0, dy |-> 0, dw |-> c.width, dh |-> c.height]

\* The canvas of handleApplyCrop once it is drawn: its size, and the
\* arguments of ctx.drawImage (source rectangle, destination rectangle).
CropDraw(c, image, pixelRatio) ==
  [op |-> "drawImage",
   width |-> c.width * pixelRatio, height |-> c.height * pixelRatio,
   sx |-> c.x * scaleX(image), sy |-> c.y * scaleY(image),
   sw |-> c.width * scaleX(image), sh |-> c.height * scaleY(image),
   dx |-> 0, dy |-> 0, dw |-> c.width, dh |-> c.height]

handleApplyCrop(ctxOk) ==
  IF completedCrop = <<>> \/ ~imgRef THEN earlyError("no-crop", "crop")
  ELSE IF ~ctxOk THEN earlyError("crop-ctx", "crop")
  ELSE IF ~CanvasHasPixels(completedCrop[1])
  THEN /\ lastOp' = <<"threw", "crop">>
       /\ UNCHANGED <<dragInfo, dragItem, dragOverItem>>
       /\ canvas' = <<>>
       /\ UNCHANGED img
       /\ UNCHANGED <<mode, history, historyIndex, prompt, isLoading, error,
                      editHotspot, displayHotspot, activeTab, crop,
                      completedCrop, layers, selectedLayerId, pending,
                      nextRaster, script>>
  ELSE /\ CanCreateRaster
       /\ addImageToHistory(history, historyIndex, nextRaster)
       /\ nextRaster' = nextRaster + 1
       /\ lastOp' = <<"commit", "crop">>
       /\ UNCHANGED <<dragInfo, dragItem, dragOverItem>>
       /\ canvas' = <<CropDraw(completedCrop[1], img, PixelRatio)>>
       /\ UNCHANGED img
       /\ script' = ScriptCommit(history, historyIndex, nextRaster)
       /\ UNCHANGED <<mode, prompt, isLoading, error, editHotspot,
                      displayHotspot, activeTab, pending>>

handleResetCrop ==
  /\ crop' = <<>>
  /\ completedCrop' = <<>>
  /\ lastOp' = Minor
  /\ UNCHANGED <<dragInfo, dragItem, dragOverItem>>
  /\ canvas' = <<>>
  /\ UNCHANGED img
  /\ UNCHANGED <<mode, history, historyIndex, prompt, isLoading, error,
                 editHotspot, displayHotspot, activeTab, layers,
                 selectedLayerId, pending, nextRaster, script>>

\* One drag on ReactCrop: onChange(c) while dragging, then onComplete(c) on
\* release. The spinner overlay covers the image while a request is in
\* flight, so nothing resolves in the middle of a drag.
dragCrop(c) ==
  /\ crop' = <<c>>
  /\ completedCrop' = <<c>>
  /\ lastOp' = Minor
  /\ UNCHANGED <<dragInfo, dragItem, dragOverItem>>
  /\ canvas' = <<>>
  /\ UNCHANGED img
  /\ UNCHANGED <<mode, history, historyIndex, prompt, isLoading, error,
                 editHotspot, displayHotspot, activeTab, layers,
                 selectedLayerId, pending, nextRaster, script>>

----------------------------------------------------------------------------
\* Hotspot, prompt, tabs.

\* handleImageClick without setEditHotspot.
handleImageClick_DisplayOnly(p) ==
  /\ IF activeTab = "retouch"
     THEN IF ~imgRef
          THEN UNCHANGED <<editHotspot, displayHotspot, selectedLayerId>>
          ELSE /\ displayHotspot' = <<p>>
               /\ UNCHANGED <<editHotspot, selectedLayerId>>
     ELSE /\ selectedLayerId' = NoLayer
          /\ UNCHANGED <<editHotspot, displayHotspot>>
  /\ lastOp' = IF activeTab = "retouch" /\ imgRef THEN <<"hotspot", "">>
                ELSE Minor
  /\ UNCHANGED <<dragInfo, dragItem, dragOverItem>>
  /\ canvas' = <<>>
  /\ UNCHANGED img
  /\ UNCHANGED <<mode, history, historyIndex, prompt, isLoading, error,
                 activeTab, crop, completedCrop, layers, pending, nextRaster,
                 script>>

handleImageClick(p) ==
  /\ IF activeTab = "retouch"
     THEN IF ~imgRef
          THEN UNCHANGED <<editHotspot, displayHotspot, selectedLayerId>>
          ELSE /\ displayHotspot' = <<p>>
               /\ editHotspot' =
                    <<[x |-> RoundDiv(p.x * img.naturalWidth, img.width),
                       y |-> RoundDiv(p.y * img.naturalHeight, img.height)]>>
               /\ UNCHANGED selectedLayerId
     ELSE /\ selectedLayerId' = NoLayer
          /\ UNCHANGED <<editHotspot, displayHotspot>>
  /\ lastOp' = IF activeTab = "retouch" /\ imgRef THEN <<"hotspot", "">>
                ELSE Minor
  /\ UNCHANGED <<dragInfo, dragItem, dragOverItem>>
  /\ canvas' = <<>>
  /\ UNCHANGED img
  /\ UNCHANGED <<mode, history, historyIndex, prompt, isLoading, error,
                 activeTab, crop, completedCrop, layers, pending, nextRaster,
                 script>>

setPrompt(v) ==
  /\ prompt' = v
  /\ lastOp' = Minor
  /\ UNCHANGED <<dragInfo, dragItem, dragOverItem>>
  /\ canvas' = <<>>
  /\ UNCHANGED img
  /\ UNCHANGED <<mode, history, historyIndex, isLoading, error, editHotspot,
                 displayHotspot, activeTab, crop, completedCrop, layers,
                 selectedLayerId, pending, nextRaster, script>>

setActiveTab(t) ==
  /\ activeTab' = t
  /\ lastOp' = Minor
  /\ UNCHANGED <<dragInfo, dragItem, dragOverItem>>
  /\ canvas' = <<>>
  /\ UNCHANGED img
  /\ UNCHANGED <<mode, history, historyIndex, prompt, isLoading, error,
                 editHotspot, displayHotspot, crop, completedCrop, layers,
                 selectedLayerId, pending, nextRaster, script>>

setMode(m) ==
  /\ mode' = m
  /\ lastOp' = Minor
  /\ UNCHANGED <<dragInfo, dragItem, dragOverItem>>
  /\ canvas' = <<>>
  /\ UNCHANGED img
  /\ UNCHANGED <<history, historyIndex, prompt, isLoading, error, editHotspot,
                 displayHotspot, activeTab, crop, completedCrop, layers,
                 selectedLayerId, pending, nextRaster, script>>

----------------------------------------------------------------------------
\* Layers.

\* handleAddTextLayer without setSelectedLayerId(newId).
handleAddTextLayer_NoSelect(t) ==
  /\ t \in DateNow(layers)
  /\ layers' = Append(layers, NewLayer(t))
  /\ UNCHANGED selectedLayerId
  /\ activeTab' = "text"
  /\ lastOp' = <<"addLayer", "">>
  /\ UNCHANGED <<dragInfo, dragItem, dragOverItem>>
  /\ canvas' = <<>>
  /\ UNCHANGED img
  /\ UNCHANGED <<mode, history, historyIndex, prompt, isLoading, error,
                 editHotspot, displayHotspot, crop, completedCrop, pending,
                 nextRaster, script>>

\* t is the value of Date.now(), counted from the layers present: that of
\* the newest layer when the clock has not advanced since it was added, or
\* a later one. Identities are in the order of the times of addition.
handleAddTextLayer(t) ==
  /\ t \in DateNow(layers)
  /\ layers' = Append(layers, NewLayer(t))
  /\ selectedLayerId' = t
  /\ activeTab' = "text"
  /\ lastOp' = <<"addLayer", "">>
  /\ UNCHANGED <<dragInfo, dragItem, dragOverItem>>
  /\ canvas' = <<>>
  /\ UNCHANGED img
  /\ UNCHANGED <<mode, history, historyIndex, prompt, isLoading, error,
                 editHotspot, displayHotspot, crop, completedCrop, pending,
                 nextRaster, script>>

\* The updated layer made of the updates and the defaults.
MergeAttrs_DropsOthers(l, updates) ==
  [f \in DOMAIN l |->
     IF f \in DOMAIN updates THEN updates[f] ELSE NewLayer(l.id)[f]]
\* { ...l, ...updates }
MergeAttrs(l, updates) ==
  [f \in DOMAIN l |-> IF f \in DOMAIN updates THEN updates[f] ELSE l[f]]

handleUpdateLayer(id, updates) ==
  /\ layers' = [i \in 1..Len(layers) |->
                  IF layers[i].id = id THEN MergeAttrs(layers[i], updates)
                  ELSE layers[i]]
  /\ lastOp' = <<"updateLayer", "">>
  /\ UNCHANGED <<dragInfo, dragItem, dragOverItem>>
  /\ canvas' = <<>>
  /\ UNCHANGED img
  /\ UNCHANGED <<mode, history, historyIndex, prompt, isLoading, error,
                 editHotspot, displayHotspot, activeTab, crop, completedCrop,
                 selectedLayerId, pending, nextRaster, script>>

\* handleRemoveLayer without the test of the selection.
handleRemoveLayer_KeepsSelection(id) ==
  /\ layers' = WithoutId(layers, id)
  /\ UNCHANGED selectedLayerId
  /\ lastOp' = <<"removeLayer", "">>
  /\ UNCHANGED <<dragInfo, dragItem, dragOverItem>>
  /\ canvas' = <<>>
  /\ UNCHANGED img
  /\ UNCHANGED <<mode, history, historyIndex, prompt, isLoading, error,
                 editHotspot, displayHotspot, activeTab, crop, completedCrop,
                 pending, nextRaster, script>>

handleRemoveLayer(id) ==
  /\ layers' = WithoutId(layers, id)
  /\ selectedLayerId' = IF selectedLayerId = id THEN NoLayer
                        ELSE selectedLayerId
  /\ lastOp' = <<"removeLayer", "">>
  /\ UNCHANGED <<dragInfo, dragItem, dragOverItem>>
  /\ canvas' = <<>>
  /\ UNCHANGED img
  /\ UNCHANGED <<mode, history, historyIndex, prompt, isLoading, error,
                 editHotspot, displayHotspot, activeTab, crop, completedCrop,
                 pending, nextRaster, script>>

setSelectedLayerId(id) ==
  /\ selectedLayerId' = id
  /\ lastOp' = Minor
  /\ UNCHANGED <<dragInfo, dragItem, dragOverItem>>
  /\ canvas' = <<>>
  /\ UNCHANGED img
  /\ UNCHANGED <<mode, history, historyIndex, prompt, isLoading, error,
                 editHotspot, displayHotspot, activeTab, crop, completedCrop,
                 layers, pending, nextRaster, script>>

\* if (!currentImageUrl) return; setIsLoading(true); load the image.
handleMergeLayers ==
  IF currentImageUrl = NoRaster
  THEN /\ lastOp' = <<"mergeNoImage", "merge">>
       /\ UNCHANGED <<dragInfo, dragItem, dragOverItem>>
       /\ canvas' = <<>>
       /\ UNCHANGED img
       /\ UNCHANGED <<mode, history, historyIndex, prompt, isLoading, error,
                      editHotspot, displayHotspot, activeTab, crop,
                      completedCrop, layers, selectedLayerId, pending,
                      nextRaster, script>>
  ELSE /\ CanCreateRaster
       /\ isLoading' = TRUE
       /\ pending' = pending \cup {Request("merge")}
       /\ lastOp' = <<"dispatch", "merge">>
       /\ UNCHANGED <<dragInfo, dragItem, dragOverItem>>
       /\ canvas' = <<>>
       /\ UNCHANGED img
       /\ UNCHANGED <<mode, history, historyIndex, prompt, error, editHotspot,
                      displayHotspot, activeTab, crop, completedCrop, layers,
                      selectedLayerId, nextRaster, script>>

\* The copy of the layers without reverse().
Reverse_Same(ls) == ls
\* [...layers].reverse()
Reverse(ls) == [i \in 1..Len(ls) |-> ls[Len(ls) + 1 - i]]

\* ctx.fillText for one layer, with the context set up from the layer.
FillText(layer) ==
  [op |-> "fillText", id |-> layer.id, text |-> layer.content,
   globalAlpha |-> layer.opacity, font |-> <<layer.size, layer.font>>,
   fillStyle |-> layer.color, textBaseline |-> "top",
   x |-> layer.position.x,
   y |-> layer.position.y]

\* The forEach painting the hidden layers too.
PaintLayers_PaintsHidden(ls) ==
  LET F[i \in 0..Len(ls)] ==
        IF i = 0 THEN <<>>
        ELSE Append(F[i - 1], FillText(Reverse(ls)[i]))
  IN F[Len(ls)]

\* The forEach over the reversed layers: the visible ones are painted.
PaintLayers(ls) ==
  LET F[i \in 0..Len(ls)] ==
        IF i = 0 THEN <<>>
        ELSE IF Reverse(ls)[i].visible
             THEN Append(F[i - 1], FillText(Reverse(ls)[i]))
             ELSE F[i - 1]
  IN F[Len(ls)]

\* The live view: layers.map renders the visible layers as elements in
\* array order, each over the ones before it.
LiveLayers(ls) ==
  LET F[i \in 0..Len(ls)] ==
        IF i = 0 THEN <<>>
        ELSE IF ls[i].visible THEN Append(F[i - 1], ls[i]) ELSE F[i - 1]
  IN F[Len(ls)]

\* imageToMerge.onload. urlOk: canvas.toDataURL returned an image; a canvas
\* larger than the browser supports gives "data:,", which dataURLtoFile
\* rejects, and the exception leaves the callback before
\* addImageToHistory and setIsLoading(false).
MergeLoaded(req, ctxOk, urlOk) ==
  /\ req \in pending /\ req.kind = "merge"
  /\ pending' = pending \ {req}
  /\ IF ~ctxOk
     THEN /\ isLoading' = FALSE
          /\ error' = "merge-ctx"
          /\ lastOp' = <<"failed", "merge">>
          /\ UNCHANGED <<dragInfo, dragItem, dragOverItem>>
          /\ canvas' = <<>>
          /\ UNCHANGED <<history, historyIndex, crop, completedCrop, layers,
                         selectedLayerId, nextRaster, script>>
     ELSE IF ~urlOk
     THEN /\ lastOp' = <<"threw", "merge">>
          /\ UNCHANGED <<dragInfo, dragItem, dragOverItem>>
          /\ canvas' = <<>>
          /\ UNCHANGED <<isLoading, error, history, historyIndex, crop,
                         completedCrop, layers, selectedLayerId, nextRaster,
                         script>>
     ELSE /\ addImageToHistory(req.history, req.historyIndex, nextRaster)
          /\ isLoading' = FALSE
          /\ nextRaster' = nextRaster + 1
          /\ lastOp' = <<"commit", "merge">>
          /\ UNCHANGED <<dragInfo, dragItem, dragOverItem>>
          /\ canvas' = <<[op |-> "drawImage", image |-> req.image]>>
                         \o PaintLayers(req.layers)
          /\ script' = ScriptCommit(req.history, req.historyIndex, nextRaster)
          /\ UNCHANGED error
  /\ UNCHANGED img
  /\ UNCHANGED <<mode, prompt, editHotspot, displayHotspot, activeTab>>

\* imageToMerge.onerror
MergeLoadError(req) ==
  /\ req \in pending /\ req.kind = "merge"
  /\ pending' = pending \ {req}
  /\ isLoading' = FALSE
  /\ error' = "merge-load"
  /\ lastOp' = <<"failed", "merge">>
  /\ UNCHANGED <<dragInfo, dragItem, dragOverItem>>
  /\ canvas' = <<>>
  /\ UNCHANGED img
  /\ UNCHANGED <<mode, history, historyIndex, prompt, editHotspot,
                 displayHotspot, activeTab, crop, completedCrop, layers,
                 selectedLayerId, nextRaster, script>>

----------------------------------------------------------------------------
\* Reordering the layers (LayerPanel rows dragged onto each other).

\* The updater of handleReorderLayers: items.splice(sourceIndex, 1), then
\* items.splice(destIndex, 0, reorderedItem); sourceIndex is an index of
\* prev, destIndex beyond the end inserts at the end.
ReorderItems(prev, sourceIndex, destIndex) ==
  LET reorderedItem == prev[sourceIndex + 1]
      items == SubSeq(prev, 1, sourceIndex)
                 \o SubSeq(prev, sourceIndex + 2, Len(prev))
      at == Min(destIndex, Len(items))
  IN SubSeq(items, 1, at) \o <<reorderedItem>>
       \o SubSeq(items, at + 1, Len(items))

handleReorderLayers(sourceIndex, destIndex) ==
  /\ sourceIndex \in 0..(Len(layers) - 1)
  /\ layers' = ReorderItems(layers, sourceIndex, destIndex)
  /\ lastOp' = <<"reorder", "">>
  /\ canvas' = <<>>
  /\ UNCHANGED <<mode, history, historyIndex, prompt, isLoading, error,
                 editHotspot, displayHotspot, activeTab, crop, completedCrop,
                 selectedLayerId, pending, nextRaster, img, dragInfo,
                 dragItem, dragOverItem, script>>

handleDragStart(index) ==
  /\ dragItem' = index
  /\ lastOp' = Minor
  /\ canvas' = <<>>
  /\ UNCHANGED <<mode, history, historyIndex, prompt, isLoading, error,
                 editHotspot, displayHotspot, activeTab, crop, completedCrop,
                 layers, selectedLayerId, pending, nextRaster, img, dragInfo,
                 dragOverItem, script>>

handleDragEnter(index) ==
  /\ dragOverItem' = index
  /\ lastOp' = Minor
  /\ canvas' = <<>>
  /\ UNCHANGED <<mode, history, historyIndex, prompt, isLoading, error,
                 editHotspot, displayHotspot, activeTab, crop, completedCrop,
                 layers, selectedLayerId, pending, nextRaster, img, dragInfo,
                 dragItem, script>>

\* handleDragEnd calling onReorderLayers whatever the two indices are.
handleDragEnd_NoTest ==
  /\ IF dragItem # NoIndex /\ dragOverItem # NoIndex
     THEN /\ layers' = ReorderItems(layers, dragItem, dragOverItem)
          /\ lastOp' = <<"reorder", "">>
     ELSE /\ UNCHANGED layers
          /\ lastOp' = Minor
  /\ dragItem' = NoIndex
  /\ dragOverItem' = NoIndex
  /\ canvas' = <<>>
  /\ UNCHANGED <<mode, history, historyIndex, prompt, isLoading, error,
                 editHotspot, displayHotspot, activeTab, crop, completedCrop,
                 selectedLayerId, pending, nextRaster, img, dragInfo, script>>

handleDragEnd ==
  /\ IF dragItem # NoIndex /\ dragOverItem # NoIndex
          /\ dragItem # dragOverItem
     THEN /\ layers' = ReorderItems(layers, dragItem, dragOverItem)
          /\ lastOp' = <<"reorder", "">>
     ELSE /\ UNCHANGED layers
          /\ lastOp' = Minor
  /\ dragItem' = NoIndex
  /\ dragOverItem' = NoIndex
  /\ canvas' = <<>>
  /\ UNCHANGED <<mode, history, historyIndex, prompt, isLoading, error,
                 editHotspot, displayHotspot, activeTab, crop, completedCrop,
                 selectedLayerId, pending, nextRaster, img, dragInfo, script>>

----------------------------------------------------------------------------
\* Dragging a layer on the image.

\* imageContainerRef.current.getBoundingClientRect(): left and top.
ContainerLeft == 10
ContainerTop == 20

\* offset: the pointer relative to the corner of the layer's element.
handleLayerMouseDown(id, offset) ==
  /\ selectedLayerId' = id
  /\ dragInfo' = [id |-> id, offset |-> offset]
  /\ lastOp' = <<"mouseDown", "">>
  /\ canvas' = <<>>
  /\ UNCHANGED <<mode, history, historyIndex, prompt, isLoading, error,
                 editHotspot, displayHotspot, activeTab, crop, completedCrop,
                 layers, pending, nextRaster, img, dragItem, dragOverItem,
                 script>>

\* handleMouseMove moving every layer.
handleMouseMove_AllLayers(e) ==
  /\ IF dragInfo.id # NoLayer
     THEN layers' =
            [i \in 1..Len(layers) |->
               [layers[i] EXCEPT !.position =
                    [x |-> e.clientX - ContainerLeft - dragInfo.offset.x,
                     y |-> e.clientY - ContainerTop - dragInfo.offset.y]]]
     ELSE UNCHANGED layers
  /\ lastOp' = <<"mouseMove", "">>
  /\ canvas' = <<>>
  /\ UNCHANGED <<mode, history, historyIndex, prompt, isLoading, error,
                 editHotspot, displayHotspot, activeTab, crop, completedCrop,
                 selectedLayerId, pending, nextRaster, img, dragInfo,
                 dragItem, dragOverItem, script>>

\* The magnifier the move drives when no layer is dragged is not part of
\* the session.
handleMouseMove(e) ==
  /\ IF dragInfo.id # NoLayer
     THEN layers' =
            [i \in 1..Len(layers) |->
               IF layers[i].id = dragInfo.id
               THEN [layers[i] EXCEPT !.position =
                       [x |-> e.clientX - ContainerLeft - dragInfo.offset.x,
                        y |-> e.clientY - ContainerTop - dragInfo.offset.y]]
               ELSE layers[i]]
     ELSE UNCHANGED layers
  /\ lastOp' = <<"mouseMove", "">>
  /\ canvas' = <<>>
  /\ UNCHANGED <<mode, history, historyIndex, prompt, isLoading, error,
                 editHotspot, displayHotspot, activeTab, crop, completedCrop,
                 selectedLayerId, pending, nextRaster, img, dragInfo,
                 dragItem, dragOverItem, script>>

handleMouseLeave ==
  /\ dragInfo' = [dragInfo EXCEPT !.id = NoLayer]
  /\ lastOp' = <<"mouseLeave", "">>
  /\ canvas' = <<>>
  /\ UNCHANGED <<mode, history, historyIndex, prompt, isLoading, error,
                 editHotspot, displayHotspot, activeTab, crop, completedCrop,
                 layers, selectedLayerId, pending, nextRaster, img, dragItem,
                 dragOverItem, script>>

handleMouseUp ==
  /\ dragInfo' = [dragInfo EXCEPT !.id = NoLayer]
  /\ lastOp' = <<"mouseUp", "">>
  /\ canvas' = <<>>
  /\ UNCHANGED <<mode, history, historyIndex, prompt, isLoading, error,
                 editHotspot, displayHotspot, activeTab, crop, completedCrop,
                 layers, selectedLayerId, pending, nextRaster, img, dragItem,
                 dragOverItem, script>>

----------------------------------------------------------------------------
\* Download.

\* The paint loop of handleDownload with the layers in array order.
DownloadPaintLayers_InOrder(ls) ==
  LET F[i \in 0..Len(ls)] ==
        IF i = 0 THEN <<>>
        ELSE IF ls[i].visible
             THEN Append(F[i - 1], FillText(ls[i]))
             ELSE F[i - 1]
  IN F[Len(ls)]

\* The paint loop of handleDownload: [...layers].reverse().forEach.
DownloadPaintLayers(ls) ==
  LET F[i \in 0..Len(ls)] ==
        IF i = 0 THEN <<>>
        ELSE IF Reverse(ls)[i].visible
             THEN Append(F[i - 1], FillText(Reverse(ls)[i]))
             ELSE F[i - 1]
  IN F[Len(ls)]

\* imageToDownload.src = currentImageUrl: the image starts loading, with
\* the layers the callback captured.
handleDownload ==
  /\ pending' = pending \cup {Request("download")}
  /\ lastOp' = <<"load", "download">>
  /\ canvas' = <<>>
  /\ UNCHANGED <<mode, history, historyIndex, prompt, isLoading, error,
                 editHotspot, displayHotspot, activeTab, crop, completedCrop,
                 layers, selectedLayerId, nextRaster, img, dragInfo,
                 dragItem, dragOverItem, script>>

\* imageToDownload.onload reporting a missing context as the merge does.
DownloadLoaded_SetsError(req, ctxOk) ==
  /\ req \in pending /\ req.kind = "download"
  /\ pending' = pending \ {req}
  /\ IF ~ctxOk
     THEN /\ lastOp' = <<"noCtx", "download">>
          /\ error' = "download-ctx"
          /\ canvas' = <<>>
     ELSE /\ lastOp' = <<"exported", "download">>
          /\ UNCHANGED error
          /\ canvas' = <<[op |-> "drawImage", image |-> req.image]>>
                         \o DownloadPaintLayers(req.layers)
  /\ UNCHANGED <<mode, history, historyIndex, prompt, isLoading,
                 editHotspot, displayHotspot, activeTab, crop, completedCrop,
                 layers, selectedLayerId, nextRaster, img, dragInfo,
                 dragItem, dragOverItem, script>>

\* imageToDownload.onload: if (!ctx) return; otherwise the canvas is painted
\* and handed to the browser as a download.
DownloadLoaded(req, ctxOk) ==
  /\ req \in pending /\ req.kind = "download"
  /\ pending' = pending \ {req}
  /\ IF ~ctxOk
     THEN /\ lastOp' = <<"noCtx", "download">>
          /\ canvas' = <<>>
     ELSE /\ lastOp' = <<"exported", "download">>
          /\ canvas' = <<[op |-> "drawImage", image |-> req.image]>>
                         \o DownloadPaintLayers(req.layers)
  /\ UNCHANGED <<mode, history, historyIndex, prompt, isLoading, error,
                 editHotspot, displayHotspot, activeTab, crop, completedCrop,
                 layers, selectedLayerId, nextRaster, img, dragInfo,
                 dragItem, dragOverItem, script>>

\* The image fails to load: handleDownload sets no onerror.
DownloadLoadError(req) ==
  /\ req \in pending /\ req.kind = "download"
  /\ pending' = pending \ {req}
  /\ lastOp' = <<"loadError", "download">>
  /\ canvas' = <<>>
  /\ UNCHANGED <<mode, history, historyIndex, prompt, isLoading, error,
                 editHotspot, displayHotspot, activeTab, crop, completedCrop,
                 layers, selectedLayerId, nextRaster, img, dragInfo,
                 dragItem, dragOverItem, script>>

----------------------------------------------------------------------------
\* The controls renderContent offers: each is the handler behind the guard
\* that renders and enables the control.

\* AdjustmentPanel and FilterPanel receive isLoading; the busy flag gates
\* their apply buttons like every other triggering control.
AdjustmentPanelEnabled == ~isLoading
FilterPanelEnabled == ~isLoading

\* StartScreen
SelectFile == StartScreenShown /\ handleImageUpload
StartGenerate == StartScreenShown /\ setMode("generate")

\* GenerateScreen
ClickGenerateImage ==
  GenerateScreenShown /\ ~isLoading /\ handleGenerateImage
CancelGenerate == GenerateScreenShown /\ ~isLoading /\ setMode("start")

\* Error panel
ClickTryAgain == ErrorShown /\ dismissError

\* Editor: the spinner overlay covers the image while isLoading.
ClickTab(t) == EditorShown /\ t # activeTab /\ setActiveTab(t)
ClickImage(p) ==
  EditorShown /\ activeTab # "crop" /\ ~isLoading /\ handleImageClick(p)
TypePrompt(v) ==
  /\ EditorShown /\ activeTab = "retouch"
  /\ ~isLoading /\ editHotspot # <<>> /\ v # prompt
  /\ setPrompt(v)
SubmitRetouch ==
  /\ EditorShown /\ activeTab = "retouch"
  /\ ~isLoading /\ Trim(prompt) # "" /\ editHotspot # <<>>
  /\ handleGenerate
DragCrop(c) ==
  /\ EditorShown /\ activeTab = "crop" /\ ~isLoading /\ crop # <<c>>
  /\ dragCrop(c)
ClickResetCrop ==
  /\ EditorShown /\ activeTab = "crop" /\ ~isLoading
  /\ crop # <<>> /\ crop[1].width > 0
  /\ handleResetCrop
ClickApplyCrop(ctxOk) ==
  /\ EditorShown /\ activeTab = "crop" /\ ~isLoading
  /\ completedCrop # <<>> /\ completedCrop[1].width > 0
  /\ handleApplyCrop(ctxOk)
ClickApplyAdjustment ==
  /\ EditorShown /\ activeTab = "adjust" /\ AdjustmentPanelEnabled
  /\ handleApplyAdjustment
ClickApplyFilter ==
  /\ EditorShown /\ activeTab = "filters" /\ FilterPanelEnabled
  /\ handleApplyFilter
ClickAddText(t) ==
  EditorShown /\ activeTab = "text" /\ ~isLoading /\ handleAddTextLayer(t)
ClickLayerRow(id) ==
  /\ EditorShown /\ activeTab = "layers"
  /\ id \in LayerIds(layers) /\ id # selectedLayerId
  /\ setSelectedLayerId(id)
ClickLayerEye(id) ==
  /\ EditorShown /\ activeTab = "layers"
  /\ \E i \in 1..Len(layers) :
       /\ layers[i].id = id
       /\ handleUpdateLayer(id, [visible |-> ~layers[i].visible])
SlideLayerOpacity(id, v) ==
  /\ EditorShown /\ activeTab = "layers" /\ id \in LayerIds(layers)
  /\ \E i \in 1..Len(layers) : layers[i].id = id /\ layers[i].opacity # v
  /\ handleUpdateLayer(id, [opacity |-> v])
DragRowStart(index) ==
  /\ EditorShown /\ activeTab = "layers"
  /\ index \in 0..(Len(layers) - 1)
  /\ handleDragStart(index)
DragRowEnter(index) ==
  /\ EditorShown /\ activeTab = "layers"
  /\ index \in 0..(Len(layers) - 1)
  /\ handleDragEnter(index)
DropRow == EditorShown /\ activeTab = "layers" /\ handleDragEnd
\* The layers are rendered over the image outside the crop tab, the visible
\* ones, under the spinner overlay.
PointerDownLayer(id, offset) ==
  /\ EditorShown /\ activeTab # "crop" /\ ~isLoading
  /\ \E i \in 1..Len(layers) : layers[i].id = id /\ layers[i].visible
  /\ handleLayerMouseDown(id, offset)
MovePointer(e) ==
  EditorShown /\ activeTab # "crop" /\ ~isLoading /\ handleMouseMove(e)
ReleasePointer ==
  EditorShown /\ activeTab # "crop" /\ ~isLoading /\ handleMouseUp
LeavePointer ==
  EditorShown /\ activeTab # "crop" /\ ~isLoading /\ handleMouseLeave
ClickDownload == EditorShown /\ handleDownload
ClickLayerTrash(id) ==
  /\ EditorShown /\ activeTab = "layers" /\ id \in LayerIds(layers)
  /\ handleRemoveLayer(id)
ClickMerge ==
  /\ EditorShown /\ activeTab = "layers"
  /\ Len(layers) > 0 /\ ~isLoading
  /\ handleMergeLayers
\* The Auto-Enhance button without disabled={isLoading}.
ClickAutoEnhance_NotGated ==
  EditorShown /\ currentImage # NoRaster /\ handleAutoEnhance
ClickAutoEnhance ==
  EditorShown /\ ~isLoading /\ currentImage # NoRaster /\ handleAutoEnhance
ClickUpscale ==
  EditorShown /\ ~isLoading /\ currentImage # NoRaster /\ handleUpscale
ClickUndo == EditorShown /\ canUndo /\ handleUndo
ClickRedo == EditorShown /\ canRedo /\ handleRedo
ClickReset == EditorShown /\ canUndo /\ handleReset
ClickStartOver == EditorShown /\ handleUploadNew

\* The attributes of a layer (ClickLayerEye, handleUpdateLayer) bear on no
\* other part of the state and are left out of the session's steps.
Next ==
  \/ SelectFile
  \/ StartGenerate
  \/ ClickGenerateImage
  \/ CancelGenerate
  \/ \E req \in pending : GenerateImageResolved(req)
  \/ \E req \in pending : GenerateImageRejected(req)
  \/ ClickTryAgain
  \/ \E t \in Tabs : ClickTab(t)
  \/ \E p \in ClickPoints : ClickImage(p)
  \/ \E v \in PromptValues : TypePrompt(v)
  \/ SubmitRetouch
  \/ \E c \in CropRects : DragCrop(c)
  \/ ClickResetCrop
  \/ \E ctxOk \in BOOLEAN : ClickApplyCrop(ctxOk)
  \/ ClickApplyAdjustment
  \/ ClickApplyFilter
  \/ ClickAutoEnhance
  \/ ClickUpscale
  \/ \E req \in pending : EditResolved(req)
  \/ \E req \in pending : EditRejected(req)
  \/ \E t \in DateNow(layers) \cap (1..MaxLayers) :
       Len(layers) < MaxLayers /\ ClickAddText(t)
  \/ \E id \in LayerIds(layers) : ClickLayerRow(id)
  \/ \E id \in LayerIds(layers) : ClickLayerTrash(id)
  \/ ClickMerge
  \/ \E req \in pending, ctxOk, urlOk \in BOOLEAN :
       MergeLoaded(req, ctxOk, urlOk)
  \/ \E req \in pending : MergeLoadError(req)
  \/ ClickUndo
  \/ ClickRedo
  \/ ClickReset
  \/ ClickStartOver

Spec == Init /\ [][Next]_vars

\* The promise of a collaborator call settles and the image of a merge
\* loads or fails to load: a request in flight is eventually handled.
Settle ==
  \E req \in pending :
    \/ GenerateImageResolved(req)
    \/ GenerateImageRejected(req)
    \/ EditResolved(req)
    \/ EditRejected(req)
    \/ \E ctxOk, urlOk \in BOOLEAN : MergeLoaded(req, ctxOk, urlOk)
    \/ MergeLoadError(req)

SpecLive == Spec /\ WF_vars(Settle)

----------------------------------------------------------------------------
\* The synchronous handlers called directly, whatever the screen shows and
\* whether or not the control that triggers them is enabled, as a caller of
\* the history stack (or a test of a handler) may do.

NextHandlers ==
  \/ handleImageUpload
  \/ dismissError
  \/ \E t \in Tabs : t # activeTab /\ setActiveTab(t)
  \/ \E p \in ClickPoints : handleImageClick(p)
  \/ \E c \in HandlerCropRects : crop # <<c>> /\ dragCrop(c)
  \/ handleResetCrop
  \/ \E ctxOk \in BOOLEAN : handleApplyCrop(ctxOk)
  \/ \E t \in DateNow(layers) \cap (1..MaxLayers) :
       Len(layers) < MaxLayers /\ handleAddTextLayer(t)
  \/ \E id \in LayerIds(layers) : handleRemoveLayer(id)
  \/ handleUndo
  \/ handleRedo
  \/ handleReset
  \/ handleUploadNew

SpecHandlers == Init /\ [][NextHandlers]_vars

----------------------------------------------------------------------------
\* Crop rasterization on its own: the <img> element has one of the sizes of
\* Imgs, and the handlers that select, apply and undo a crop are called.

InitCrop ==
  /\ img \in Imgs
  /\ mode = "start"
  /\ history = <<>>
  /\ historyIndex = -1
  /\ prompt = ""
  /\ isLoading = FALSE
  /\ error = NoError
  /\ editHotspot = <<>>
  /\ displayHotspot = <<>>
  /\ activeTab = "retouch"
  /\ crop = <<>>
  /\ completedCrop = <<>>
  /\ layers = <<>>
  /\ selectedLayerId = NoLayer
  /\ pending = {}
  /\ nextRaster = 1
  /\ lastOp = <<"init", "">>
  /\ canvas = <<>>
  /\ dragInfo = NoDrag
  /\ dragItem = NoIndex
  /\ dragOverItem = NoIndex
  /\ script = ScriptOff

NextCrop ==
  \/ handleImageUpload
  \/ dismissError
  \/ \E c \in HandlerCropRects : crop # <<c>> /\ dragCrop(c)
  \/ handleResetCrop
  \/ \E ctxOk \in BOOLEAN : handleApplyCrop(ctxOk)
  \/ handleUndo
  \/ handleRedo

SpecCrop == InitCrop /\ [][NextCrop]_vars

----------------------------------------------------------------------------
\* The layer tools on their own: the text and layers tabs of the editor.

LayerTabs == {"text", "layers"}

\* A row of the panel dragged onto another is one gesture, from its start to
\* its end with the pointer held: no other control is used and nothing
\* settles in between. The image of a download or a merge is loaded from
\* memory: it loads, or fails to, before the next event.
RowDragged == dragItem # NoIndex
Idle == ~RowDragged /\ pending = {}

NextLayers ==
  \/ Idle /\ SelectFile
  \/ Idle /\ ClickTryAgain
  \/ \E t \in LayerTabs : Idle /\ ClickTab(t)
  \/ \E t \in DateNow(layers) \cap (1..MaxStack) :
       Idle /\ Len(layers) < MaxStack /\ ClickAddText(t)
  \/ \E id \in LayerIds(layers) : Idle /\ ClickLayerRow(id)
  \/ \E id \in LayerIds(layers) : Idle /\ ClickLayerEye(id)
  \/ \E id \in LayerIds(layers) : Idle /\ SlideLayerOpacity(id, 50)
  \/ \E id \in LayerIds(layers) : Idle /\ ClickLayerTrash(id)
  \/ \E i \in 0..(MaxStack - 1) : Idle /\ DragRowStart(i)
  \/ \E i \in 0..(MaxStack - 1) : RowDragged /\ DragRowEnter(i)
  \/ RowDragged /\ DropRow
  \/ Idle /\ ClickMerge
  \/ \E req \in pending, ctxOk, urlOk \in BOOLEAN :
       MergeLoaded(req, ctxOk, urlOk)
  \/ \E req \in pending : MergeLoadError(req)
  \/ Idle /\ ClickDownload
  \/ \E req \in pending, ctxOk \in BOOLEAN : DownloadLoaded(req, ctxOk)
  \/ \E req \in pending : DownloadLoadError(req)

SpecLayers == Init /\ [][NextLayers]_vars

----------------------------------------------------------------------------
\* Layers dragged on the image. While a layer is dragged the pointer is
\* held: it moves, is released or leaves the image.

LayerDragged == dragInfo.id # NoLayer

NextDrag ==
  \/ ~LayerDragged /\ SelectFile
  \/ \E t \in LayerTabs : ~LayerDragged /\ ClickTab(t)
  \/ \E t \in DateNow(layers) \cap (1..MaxStack) :
       ~LayerDragged /\ Len(layers) < MaxStack /\ ClickAddText(t)
  \/ \E id \in LayerIds(layers) : ~LayerDragged /\ ClickLayerEye(id)
  \/ \E id \in LayerIds(layers), o \in GrabOffsets :
       ~LayerDragged /\ PointerDownLayer(id, o)
  \/ \E e \in PointerPoints : MovePointer(e)
  \/ LayerDragged /\ ReleasePointer
  \/ LayerDragged /\ LeavePointer

SpecDrag == Init /\ [][NextDrag]_vars

----------------------------------------------------------------------------
\* The handlers of the layer model called directly, with identities that
\* may be those of no layer.

AnyLayerIds == 1..(MaxStack + 1)

NextLayerHandlers ==
  \/ \E t \in DateNow(layers) \cap (1..MaxStack) :
       Len(layers) < MaxStack /\ handleAddTextLayer(t)
  \/ \E id \in AnyLayerIds, u \in LayerUpdates : handleUpdateLayer(id, u)
  \/ \E id \in AnyLayerIds : handleRemoveLayer(id)
  \/ \E i \in 0..(MaxStack - 1), j \in 0..MaxStack :
       handleReorderLayers(i, j)
  \/ \E id \in AnyLayerIds : id # selectedLayerId /\ setSelectedLayerId(id)

SpecLayerHandlers == Init /\ [][NextLayerHandlers]_vars

----------------------------------------------------------------------------
\* Clicks on the image, the <img> element having one of the sizes of
\* ClickImgs.

ClickImgs ==
  Imgs \cup {[naturalWidth |-> 750, naturalHeight |-> 500, width |-> 500,
               height |-> 250]}
HandlerClickPoints ==
  ClickPoints \cup {[x |-> 1, y |-> 2], [x |-> 0, y |-> 0]}

InitClick ==
  /\ img \in ClickImgs
  /\ mode = "start"
  /\ history = <<>>
  /\ historyIndex = -1
  /\ prompt = ""
  /\ isLoading = FALSE
  /\ error = NoError
  /\ editHotspot = <<>>
  /\ displayHotspot = <<>>
  /\ activeTab = "retouch"
  /\ crop = <<>>
  /\ completedCrop = <<>>
  /\ layers = <<>>
  /\ selectedLayerId = NoLayer
  /\ pending = {}
  /\ nextRaster = 1
  /\ lastOp = <<"init", "">>
  /\ canvas = <<>>
  /\ dragInfo = NoDrag
  /\ dragItem = NoIndex
  /\ dragOverItem = NoIndex
  /\ script = ScriptOff

NextClick ==
  \/ handleImageUpload
  \/ \E t \in {"retouch", "text"} : t # activeTab /\ setActiveTab(t)
  \/ \E t \in DateNow(layers) \cap (1..MaxLayers) :
       Len(layers) < MaxLayers /\ handleAddTextLayer(t)
  \/ \E p \in HandlerClickPoints : handleImageClick(p)
  \/ handleUndo

SpecClick == InitClick /\ [][NextClick]_vars

----------------------------------------------------------------------------
\* The localized edit on its own: handleGenerate is called whatever the
\* form enables, with and without an image, a prompt and a hotspot.

HandlerPromptValues == PromptValues \cup {" "}

NextRetouch ==
  \/ handleImageUpload
  \/ \E v \in HandlerPromptValues : v # prompt /\ setPrompt(v)
  \/ \E p \in ClickPoints : handleImageClick(p)
  \/ \E t \in DateNow(layers) \cap (1..MaxLayers) :
       Len(layers) < MaxLayers /\ handleAddTextLayer(t)
  \/ handleGenerate
  \/ \E req \in pending : EditResolved(req)
  \/ \E req \in pending : EditRejected(req)
  \/ dismissError
  \/ handleUploadNew

SpecRetouch == Init /\ [][NextRetouch]_vars

----------------------------------------------------------------------------
\* Properties.

\* The request a step has just resolved.
Resolved == pending \ pending'

\* The operations that commit a raster, change the cursor or replace the
\* history, by the value lastOp has right after them.
CommitOps == {<<"commit", k>> : k \in EditKinds \cup {"crop", "merge"}}
ReplaceAllOps == {<<"upload", "">>, <<"generated", "generate">>}

\* C1: in every reachable state the cursor is -1 when the history is empty
\* and otherwise a valid index, 0 <= cursor <= length - 1.
C1_CursorValid ==
  IF Len(history) = 0 THEN historyIndex = -1
  ELSE 0 <= historyIndex /\ historyIndex <= Len(history) - 1

\* A commit whose request was in flight across a start-over has resolved.
C1_Witness == lastOp \in CommitOps /\ mode = "start" /\ Len(history) = 2

\* C2: from [R0] at cursor 0, after N commits R1..RN, each resolved on the
\* history it was dispatched on, and then K <= N undos, the current raster
\* is R(N-K) and canRedo is true exactly when K > 0.
C2_CommitsThenUndos ==
  script.on =>
    /\ script.k <= Len(script.rs) - 1
    /\ currentImage = script.rs[Len(script.rs) - script.k]
    /\ canRedo <=> script.k > 0

\* N = 2 commits followed by K = 2 undos.
C2_Witness == script.on /\ Len(script.rs) = 3 /\ script.k = 2

\* C3: a commit made with the cursor before the last index, and nothing
\* having changed the history or the cursor since its dispatch, keeps the
\* entries 0..cursor, drops the later ones, appends the new raster and puts
\* the cursor on it, so that redo is unavailable.
C3_CommitTruncates ==
  [][(/\ lastOp' \in CommitOps
      /\ canRedo
      /\ \A req \in Resolved :
           req.history = history /\ req.historyIndex = historyIndex)
     => (/\ Len(history') = historyIndex + 2
         /\ SubSeq(history', 1, historyIndex + 1)
              = SubSeq(history, 1, historyIndex + 1)
         /\ history'[historyIndex + 2] = nextRaster
         /\ historyIndex' = Len(history') - 1
         /\ ~canRedo')]_vars

\* [R1, R2] at cursor 0, then a crop is applied: [R1, R3].
C3_Witness == lastOp = <<"commit", "crop">> /\ history = <<1, 3>>

\* C4: reset-to-original sets the cursor to 0 and leaves the history as it
\* is; with more than one entry redo is available afterwards.
C4_ResetKeepsHistory ==
  [][lastOp' = <<"reset", "">>
     => (/\ historyIndex' = 0
         /\ history' = history
         /\ Len(history) > 1 => canRedo')]_vars

C4_Witness ==
  lastOp = <<"reset", "">> /\ Len(history) = 3 /\ historyIndex = 0

\* C5: undo at cursor <= 0 and redo at cursor >= last index change nothing of
\* history, cursor, layers, selection, hotspot, crop region and error;
\* otherwise undo moves the cursor down by one, redo up by one, and neither
\* changes the history.
C5_Frame ==
  UNCHANGED <<history, historyIndex, layers, selectedLayerId, editHotspot,
              displayHotspot, crop, completedCrop, error>>

C5_UndoRedo ==
  [][/\ (lastOp'[1] \in {"undo", "undoNoop"} /\ historyIndex <= 0)
        => C5_Frame
     /\ (lastOp'[1] \in {"redo", "redoNoop"}
         /\ historyIndex >= Len(history) - 1)
        => C5_Frame
     /\ (lastOp'[1] \in {"undo", "undoNoop"} /\ historyIndex > 0)
        => historyIndex' = historyIndex - 1 /\ history' = history
     /\ (lastOp'[1] \in {"redo", "redoNoop"}
         /\ historyIndex < Len(history) - 1)
        => historyIndex' = historyIndex + 1 /\ history' = history]_vars

\* Undo was called at cursor 0 with a layer, a hotspot and a crop present.
C5_Witness ==
  /\ lastOp = <<"undoNoop", "">>
  /\ historyIndex = 0
  /\ layers # <<>> /\ editHotspot # <<>> /\ completedCrop # <<>>

\* C6: right after every commit, effective undo, effective redo, reset and
\* replaceAll there is no layer and no selected layer.
C6_LayersCleared ==
  lastOp \in CommitOps \cup ReplaceAllOps
              \cup {<<"undo", "">>, <<"redo", "">>, <<"reset", "">>}
    => layers = <<>> /\ selectedLayerId = NoLayer

\* A merge of layers has been committed.
C6_Witness == lastOp = <<"commit", "merge">> /\ layers = <<>>

\* C7: right after every commit, of whichever operation, and every
\* effective undo and redo both representations of the hotspot are absent.
C7_HotspotCleared ==
  lastOp \in CommitOps \cup {<<"undo", "">>, <<"redo", "">>}
    => editHotspot = <<>> /\ displayHotspot = <<>>

\* C8: right after every commit and every effective undo and redo there is
\* neither an in-progress crop nor a completed crop selection.
C8_CropCleared ==
  lastOp \in CommitOps \cup {<<"undo", "">>, <<"redo", "">>}
    => crop = <<>> /\ completedCrop = <<>>

\* C9: right after a file is loaded or a generation succeeds the history is
\* the new raster alone, at cursor 0, in mode edit, with no error, layer,
\* selection, crop region or hotspot.
C9_ReplaceAll ==
  lastOp \in ReplaceAllOps =>
    /\ history = <<nextRaster - 1>>
    /\ historyIndex = 0
    /\ mode = "edit"
    /\ error = NoError
    /\ layers = <<>> /\ selectedLayerId = NoLayer
    /\ crop = <<>> /\ completedCrop = <<>>
    /\ editHotspot = <<>> /\ displayHotspot = <<>>

\* A generation has succeeded in a session that already had made rasters.
C9_Witness == lastOp = <<"generated", "generate">> /\ nextRaster = 4

C11_FailureKeepsMode ==
  [][/\ lastOp' = <<"failed", "generate">>
        => (mode' = "generate" /\ history' = <<>> /\ error' # NoError)
     /\ \A req \in Resolved :
          (lastOp' = <<"failed", req.kind>> /\ req.kind \in EditKinds)
          => (mode' = "edit" /\ currentImage' = req.image)]_vars

\* C12: at most one request is in flight, the busy flag is true while one
\* is, and while the busy flag is true no step dispatches a request or
\* applies a crop.
C12_SingleInFlight ==
  /\ [](Cardinality(pending) <= 1 /\ (pending # {} => isLoading))
  /\ [][isLoading => (lastOp'[1] # "dispatch" /\ lastOp'[2] # "crop")]_vars

\* A request is in flight in the crop tab with a region ready to apply.
C12_Witness ==
  /\ isLoading /\ Cardinality(pending) = 1
  /\ EditorShown /\ activeTab = "crop"
  /\ completedCrop # <<>> /\ completedCrop[1].width > 0

\* C13: whenever the busy flag is true it is eventually false again.
C13_BusyClears == isLoading ~> ~isLoading

\* C14: in mode start and in mode generate the history is empty.
C14_NoImageOutsideEdit == mode \in {"start", "generate"} => history = <<>>

\* C15: dismissing the error clears it, moves mode edit without a current
\* raster to mode start, leaves the mode as it is otherwise, and changes
\* neither the history, the cursor nor the layers.
C15_Dismiss ==
  [][lastOp' = <<"dismiss", "">>
     => (/\ error' = NoError
         /\ mode' = IF mode = "edit" /\ currentImage = NoRaster
                    THEN "start" ELSE mode
         /\ UNCHANGED <<history, historyIndex, layers>>)]_vars

\* The error of a failed generation has been dismissed.
C15_Witness ==
  /\ lastOp = <<"dismiss", "">> /\ mode = "generate" /\ error = NoError

\* C16: applying a crop whose region has width <= 0 or height <= 0 sets an
\* error and changes neither the history nor the cursor.
C16_InvalidRegion ==
  [][(/\ lastOp'[2] = "crop"
      /\ completedCrop # <<>>
      /\ (completedCrop[1].width <= 0 \/ completedCrop[1].height <= 0))
     => (/\ error' # NoError
         /\ UNCHANGED <<history, historyIndex>>)]_vars

\* C17: the source rectangle a crop reads is the display-space region with
\* x and width multiplied by naturalWidth / width of the image and y and
\* height by naturalHeight / height; natural 1000x500 displayed at 500x250
\* with the region (100, 50, 100, 50) reads (200, 100, 200, 100).
C17_CropSource ==
  [][lastOp' = <<"commit", "crop">>
     => LET c == completedCrop[1]
            d == canvas'[1]
        IN /\ d.sx * img.width = c.x * img.naturalWidth
           /\ d.sw * img.width = c.width * img.naturalWidth
           /\ d.sy * img.height = c.y * img.naturalHeight
           /\ d.sh * img.height = c.height * img.naturalHeight
           /\ (/\ img = DefaultImg
               /\ c = [x |-> 100, y |-> 50, width |-> 100, height |-> 50])
              => <<d.sx, d.sy, d.sw, d.sh>> = <<200, 100, 200, 100>>]_vars

\* The crop of the example has been applied.
C17_Witness ==
  /\ lastOp = <<"commit", "crop">>
  /\ img = DefaultImg
  /\ <<canvas[1].sx, canvas[1].sy, canvas[1].sw, canvas[1].sh>>
       = <<200, 100, 200, 100>>

\* C18: the raster a crop produces is as wide as the natural-space width of
\* the region times the device pixel ratio, and as high as its
\* natural-space height times the device pixel ratio.
C18_CropSize ==
  [][lastOp' = <<"commit", "crop">>
     => (/\ canvas'[1].width = canvas'[1].sw * PixelRatio
         /\ canvas'[1].height = canvas'[1].sh * PixelRatio)]_vars

\* C19: adding a text layer makes the layers one longer, keeps the layers
\* there were in their order, gives the new one the default content,
\* opacity 1 and visible true, and selects it.
C19_AddTextLayer ==
  [][lastOp' = <<"addLayer", "">>
     => (/\ Len(layers') = Len(layers) + 1
         /\ \E i \in 1..Len(layers') :
              /\ layers'[i].content = "Your Text Here"
              /\ layers'[i].opacity = 100
              /\ layers'[i].visible
              /\ selectedLayerId' = layers'[i].id
              /\ [k \in 1..Len(layers) |->
                    layers'[IF k < i THEN k ELSE k + 1]] = layers)]_vars

\* A layer has been added to one that had been hidden before.
C19_Witness ==
  /\ lastOp = <<"addLayer", "">>
  /\ Len(layers) = 2
  /\ \E i \in 1..2 : ~layers[i].visible

\* C20: a merge paints the layers in the order they were added (their
\* identities are the times they were added at), so that a layer lies over
\* every layer that was there before it.
C20_NewestPaintedLast ==
  lastOp = <<"commit", "merge">> =>
    \A i, j \in 2..Len(canvas) : i < j => canvas[i].id <= canvas[j].id

\* Flatten steps: a merge committed, a download painted.
FlattenOps == {<<"commit", "merge">>, <<"exported", "download">>}

\* The identities a sequence of layers or of paint operations carries.
Ids(s) == [k \in 1..Len(s) |-> s[k].id]

\* s without its i-th element.
Drop(s, i) == [k \in 1..(Len(s) - 1) |-> IF k < i THEN s[k] ELSE s[k + 1]]

\* C21: removing the layers of an identity leaves the layers of the other
\* identities, in their order; the selection becomes none if it was that
\* identity and is unchanged otherwise.
C21_RemoveLayer ==
  [][lastOp' = <<"removeLayer", "">>
     => \E id \in AnyLayerIds :
          /\ layers' = SelectSeq(layers, LAMBDA l : l.id # id)
          /\ selectedLayerId' = IF selectedLayerId = id THEN NoLayer
                                ELSE selectedLayerId]_vars

\* The layer that was not selected has been removed.
C21_Witness ==
  /\ lastOp = <<"removeLayer", "">>
  /\ Len(layers) = 1 /\ selectedLayerId = layers[1].id

\* C22: a flatten paints the visible layers from the last of the sequence
\* to the first, so that of two visible layers the later in the sequence is
\* painted first and index 0 is painted last, on top.
C22_ReverseOrder ==
  [][\A req \in Resolved :
       lastOp' \in FlattenOps
       => LET vis == SelectSeq(req.layers, LAMBDA l : l.visible)
          IN /\ Len(canvas') = Len(vis) + 1
             /\ \A k \in 1..Len(vis) :
                  /\ canvas'[k + 1].id = vis[Len(vis) + 1 - k].id
                  /\ canvas'[k + 1].globalAlpha
                       = vis[Len(vis) + 1 - k].opacity]_vars

\* A download has painted two layers of different identities.
C22_Witness ==
  /\ lastOp = <<"exported", "download">>
  /\ Len(canvas) = 3 /\ canvas[2].id # canvas[3].id

\* C23: the visible layers are stacked in the flattened raster as they are
\* in the live view: painted in the order the live view renders them.
C23_SameStacking ==
  [][\A req \in Resolved :
       lastOp' \in FlattenOps
       => Ids(Tail(canvas')) = Ids(LiveLayers(req.layers))]_vars

\* C24: a flatten with a hidden layer in the list issues the paint
\* operations of the flatten of the list without that layer.
C24_SkipsHidden ==
  [][\A req \in Resolved :
       /\ lastOp' = <<"commit", "merge">>
          => \A i \in 1..Len(req.layers) :
               ~req.layers[i].visible
               => Tail(canvas') = PaintLayers(Drop(req.layers, i))
       /\ lastOp' = <<"exported", "download">>
          => \A i \in 1..Len(req.layers) :
               ~req.layers[i].visible
               => Tail(canvas') = DownloadPaintLayers(Drop(req.layers, i))]_vars

\* A download has painted one layer of two, the other hidden at opacity 0.5.
C24_Witness ==
  /\ lastOp = <<"exported", "download">>
  /\ Len(layers) = 2 /\ Len(canvas) = 2
  /\ \E i \in 1..2 : ~layers[i].visible /\ layers[i].opacity = 50

\* C25: on the same raster and layers a merge issues the paint operations
\* a download issues, and a download those a merge issues.
C25_SameFlatten ==
  [][\A req \in Resolved :
       /\ lastOp' = <<"commit", "merge">>
          => canvas' = <<[op |-> "drawImage", image |-> req.image]>>
                         \o DownloadPaintLayers(req.layers)
       /\ lastOp' = <<"exported", "download">>
          => canvas' = <<[op |-> "drawImage", image |-> req.image]>>
                         \o PaintLayers(req.layers)]_vars

\* A merge has painted two layers, one of them at opacity 0.5.
C25_Witness ==
  /\ lastOp = <<"commit", "merge">>
  /\ Len(canvas) = 3
  /\ canvas[2].globalAlpha # canvas[3].globalAlpha

\* C26: a flatten that gets no drawing surface or no base raster, in a
\* merge or in a download, sets the error and changes neither the history
\* nor the layers.
C26_FlattenFailure ==
  [][lastOp' \in {<<"failed", "merge">>, <<"mergeNoImage", "merge">>,
                  <<"noCtx", "download">>, <<"loadError", "download">>}
     => (/\ error' # NoError
         /\ UNCHANGED <<history, historyIndex, layers>>)]_vars

\* C27: a click at (dx, dy) of the image in the retouch tab sets the display
\* hotspot to (dx, dy) and the natural hotspot to the integers nearest to
\* dx * naturalWidth / clientWidth and dy * naturalHeight / clientHeight
\* (a half rounds up).
C27_Hotspot ==
  [][lastOp' = <<"hotspot", "">>
     => \E p \in HandlerClickPoints :
          LET n == editHotspot'[1]
          IN /\ displayHotspot' = <<p>>
             /\ 2 * n.x * img.width - img.width
                  <= 2 * p.x * img.naturalWidth
             /\ 2 * p.x * img.naturalWidth
                  < 2 * n.x * img.width + img.width
             /\ 2 * n.y * img.height - img.height
                  <= 2 * p.y * img.naturalHeight
             /\ 2 * p.y * img.naturalHeight
                  < 2 * n.y * img.height + img.height]_vars

\* A click at (3, 1) on a 750x500 image shown at 500x250: (4.5, 2).
C27_Witness ==
  /\ lastOp = <<"hotspot", "">>
  /\ img.naturalWidth = 750
  /\ displayHotspot = <<[x |-> 3, y |-> 1]>>
  /\ editHotspot = <<[x |-> 5, y |-> 2]>>

\* C28: an update of an identity gives the layers of that identity the
\* attributes of the update, leaves their other attributes, the other
\* layers, the order and the selection as they are; with no layer of that
\* identity the layers are unchanged.
C28_UpdateLayer ==
  [][lastOp' = <<"updateLayer", "">>
     => \E id \in AnyLayerIds, u \in LayerUpdates :
          /\ Len(layers') = Len(layers)
          /\ \A i \in 1..Len(layers) :
               IF layers[i].id = id
               THEN \A f \in DOMAIN layers[i] :
                      layers'[i][f] = IF f \in DOMAIN u THEN u[f]
                                      ELSE layers[i][f]
               ELSE layers'[i] = layers[i]
          /\ selectedLayerId' = selectedLayerId
          /\ id \notin LayerIds(layers) => layers' = layers]_vars

\* The first of two layers has got new text, colour and opacity.
C28_Witness ==
  /\ lastOp = <<"updateLayer", "">>
  /\ Len(layers) = 2
  /\ layers[1].id # layers[2].id
  /\ layers[1].content = "Hi" /\ layers[1].opacity = 50
  /\ layers[2] = NewLayer(layers[2].id)

C30_Drag ==
  [][/\ (lastOp' = <<"mouseMove", "">> /\ dragInfo.id # NoLayer)
        => \E e \in PointerPoints :
             layers' =
               [i \in 1..Len(layers) |->
                  IF layers[i].id = dragInfo.id
                  THEN [layers[i] EXCEPT !.position =
                          [x |-> e.clientX - ContainerLeft
                                   - dragInfo.offset.x,
                           y |-> e.clientY - ContainerTop
                                   - dragInfo.offset.y]]
                  ELSE layers[i]]
     /\ lastOp' \in {<<"mouseUp", "">>, <<"mouseLeave", "">>}
        => dragInfo'.id = NoLayer
     /\ (lastOp' = <<"mouseMove", "">> /\ dragInfo.id = NoLayer)
        => layers' = layers
     /\ (dragInfo.id = NoLayer /\ dragInfo'.id # NoLayer)
        => lastOp' = <<"mouseDown", "">>]_vars

\* One of two layers has been dragged away from the other.
C30_Witness ==
  /\ lastOp = <<"mouseMove", "">>
  /\ dragInfo.id # NoLayer
  /\ Len(layers) = 2
  /\ layers[1].id # layers[2].id
  /\ layers[1].position # layers[2].position

\* C31: a content edit that succeeds after an undo, a redo or a reset made
\* while it was in flight truncates the history at the cursor of the moment
\* of the commit, appends the result and sets the cursor to the last index.
C31_CommitAtCurrentCursor ==
  [][\A req \in Resolved :
       (/\ lastOp' = <<"commit", req.kind>> /\ req.kind \in EditKinds
        /\ history = req.history /\ historyIndex # req.historyIndex)
       => (/\ history' = Append(SubSeq(history, 1, historyIndex + 1),
                                nextRaster)
           /\ historyIndex' = Len(history') - 1)]_vars

\* C32: right after the commit of a content edit the entry before the new
\* raster is the raster that was submitted, whatever happened in flight.
C32_PredecessorSubmitted ==
  [][\A req \in Resolved :
       lastOp' = <<"commit", req.kind>> /\ req.kind \in EditKinds
       => (/\ Len(history') >= 2
           /\ history'[Len(history')] = nextRaster
           /\ history'[Len(history') - 1] = req.image
           /\ historyIndex' = Len(history') - 1)]_vars

\* An edit of the second raster has been committed after a start-over made
\* while it was in flight.
C32_Witness ==
  /\ lastOp \in CommitOps
  /\ mode = "start"
  /\ history = <<1, 2, 3>> /\ historyIndex = 2

\* C33: the raster at index 0 changes only by an upload, a successful
\* generation or a start-over, and by no commit, undo, redo or reset.
C33_OriginalStable ==
  [][At(history', 0) # At(history, 0)
     => lastOp' \in ReplaceAllOps \cup {<<"startOver", "">>}]_vars

\* The Try Again button has demoted mode edit to start.
Demoted == lastOp' = <<"dismiss", "">> /\ mode = "edit" /\ mode' = "start"

\* C34 as stated: in mode edit the history is non-empty and there is a
\* current raster, the dismissal of an error never demotes mode edit to
\* start and the fallback of mode edit with no image is never rendered.
C34_NeverFallback ==
  [][/\ mode' = "edit" => history' # <<>> /\ currentImage' # NoRaster
     /\ ~Demoted
     /\ ~FallbackRendered]_vars

\* C34 amended: in mode edit the history is non-empty and there is a
\* current raster, and the dismissal of an error never demotes mode edit to
\* start; the fallback is rendered only in the first render after an upload
\* or a successful generation that gave the session its first raster.
C34_EditHasImage ==
  [][/\ mode' = "edit" => history' # <<>> /\ currentImage' # NoRaster
     /\ ~Demoted
     /\ FallbackRendered
        => lastOp' \in ReplaceAllOps /\ history = <<>>]_vars

\* An error has been dismissed in mode edit, which stays edit.
C34_Witness ==
  /\ lastOp = <<"dismiss", "">>
  /\ mode = "edit" /\ history # <<>> /\ error = NoError

\* C35: a start-over leaves the session in its initial state: empty
\* history, cursor -1, mode start, no layers, no selection, no crop region,
\* no hotspot, no error and the busy flag false; and so it stays when a
\* request that was in flight resolves.
C35_StartOverInitial ==
  [][(\/ lastOp' = <<"startOver", "">>
      \/ (lastOp = <<"startOver", "">> /\ Resolved # {}))
     => (/\ history' = <<>> /\ historyIndex' = -1 /\ mode' = "start"
         /\ layers' = <<>> /\ selectedLayerId' = NoLayer
         /\ crop' = <<>> /\ completedCrop' = <<>>
         /\ editHotspot' = <<>> /\ displayHotspot' = <<>>
         /\ error' = NoError /\ isLoading' = FALSE)]_vars

\* C36: the display hotspot and the natural hotspot are both absent or both
\* present.
C36_HotspotsCoincide == (editHotspot = <<>>) <=> (displayHotspot = <<>>)

\* A hotspot has outlived the commit of a filter.
C36_Witness ==
  /\ lastOp = <<"commit", "filter">>
  /\ editHotspot # <<>> /\ displayHotspot # <<>>

\* C37: a localized edit called with no current raster, else with an empty
\* or blank prompt, else with no hotspot sets the error of the first of
\* these that applies and changes neither the busy flag, nor the requests
\* in flight, nor the history, the layers or the hotspot; with all three
\* present it dispatches the request.
C37_MissingInput ==
  [][(lastOp'[2] = "retouch"
      /\ lastOp'[1] \in {"no-image", "no-prompt", "no-hotspot", "dispatch"})
     => LET noImage == historyIndex < 0 \/ historyIndex >= Len(history)
            blank == prompt \in {"", " "}
            noSpot == editHotspot = <<>>
        IN IF noImage \/ blank \/ noSpot
           THEN /\ error' = IF noImage THEN "no-image"
                            ELSE IF blank THEN "no-prompt" ELSE "no-hotspot"
                /\ UNCHANGED <<isLoading, pending, history, historyIndex,
                               layers, editHotspot, displayHotspot>>
           ELSE lastOp'[1] = "dispatch" /\ isLoading']_vars

\* With a blank prompt and no hotspot the prompt is the one reported.
C37_Witness ==
  /\ lastOp = <<"no-prompt", "retouch">>
  /\ prompt = " " /\ editHotspot = <<>> /\ history # <<>>

\* C38: while an error is set the user can trigger nothing but its
\* dismissal, and no request is in flight: the busy flag is false.
C38_ErrorPreempts ==
  [][/\ error' # NoError => ~isLoading' /\ pending' = {}
     /\ error # NoError => lastOp' = <<"dismiss", "">>]_vars

\* A localized edit has failed: the error is shown and nothing is busy.
C38_Witness ==
  /\ lastOp = <<"failed", "retouch">>
  /\ error # NoError /\ ~isLoading /\ pending = {}

\* C39: the identities of the layers are pairwise distinct and the selection
\* is none or the identity of exactly one layer.
C39_DistinctIds ==
  /\ \A i, j \in 1..Len(layers) : i # j => layers[i].id # layers[j].id
  /\ \/ selectedLayerId = NoLayer
     \/ Cardinality({i \in 1..Len(layers) :
                       layers[i].id = selectedLayerId}) = 1

\* C40: a download, from the click to the end of the flatten and whether
\* the flatten succeeds or not, leaves history, cursor, layers, selection,
\* crop region, hotspot, mode, error and busy flag as they were, which is
\* as they were at the click.
C40_DownloadFrame ==
  [][lastOp'[2] = "download"
     => (/\ UNCHANGED <<history, historyIndex, layers, selectedLayerId,
                        crop, completedCrop, editHotspot, displayHotspot,
                        mode, error, isLoading>>
         /\ \A req \in Resolved :
              /\ history' = req.history
              /\ historyIndex' = req.historyIndex
              /\ layers' = req.layers)]_vars

\* A download with a layer has ended without a drawing surface.
C40_Witness ==
  /\ lastOp = <<"noCtx", "download">>
  /\ layers # <<>> /\ error = NoError /\ mode = "edit"

====
